---- MODULE Spec2Model ----
(***************************************************************************)
(* Model of src/datavis-3/src/App.tsx: the airport/flight force layout.    *)
(* The module-level code builds the node and link sets from the two CSV    *)
(* files and constructs one d3 force simulation; the App component         *)
(* registers an effect that swaps the force set on every toggle; three     *)
(* drag handlers pin and release nodes.  Calls into d3 are modelled by     *)
(* what the library does at those call sites (d3-force simulation.js,      *)
(* link.js, center.js and d3-drag drag.js).                                *)
(*                                                                         *)
(* Numbers.  Positions and velocities are integers on a small canvas grid. *)
(* alpha and alphaTarget are integers in units of 1/AlphaUnit.  What the   *)
(* velocity forces compute from coordinates and alpha is not modelled: a   *)
(* tick draws each node's velocity change from a bounded set, so that the  *)
(* properties hold for every force outcome; the centering force is the     *)
(* translation of the centroid to the center, as d3 computes it.           *)
(***************************************************************************)
EXTENDS Integers, Sequences, FiniteSets

\* ---------------------------------------------------------------- bounds
\* Largest x coordinate of the canvas grid (the code's canvas is 1280 wide).
MaxX == 1
\* Largest velocity change the forces of one tick add to one node on one axis.
MaxForce == 2
\* Largest number of simultaneous drag gestures (mouse plus touches).
MaxGestures == 2
\* Resolution of alpha: alpha = 1 is AlphaUnit.
AlphaUnit == 10
\* Longest flights file drawn by the construction specification.
MaxFlights == 2

\* The grid has one row: every y coordinate, and every pin fy that is set, is 0.
Xs == 0..MaxX
Ys == {0}
ForceDeltas == (0 - MaxForce)..MaxForce

\* The airports file, in file order, and the codes a flights row may name
\* ("XXX" is in no airports row).
AirportRows == <<"JFK", "LAX">>
AirportCodes == {AirportRows[i] : i \in DOMAIN AirportRows}
FlightCodes == AirportCodes \cup {"XXX"}
FlightCounts == {0, 1}
FlightRows == [origin : FlightCodes, destination : FlightCodes, count : FlightCounts]

Null == <<>>
Some(v) == <<v>>

VARIABLES
    status,       \* "loading" | "failed" | "loaded" | "mounted"
    airports,     \* the iata codes of the airports file
    flights,      \* the rows of the flights file
    node,         \* airportsWithTotal: iata -> [x, y, vx, vy, fx, fy]
    links,        \* the link objects: source and target are an id or a node
    forces,       \* the simulation's force map, keys in insertion order
    alpha, alphaTarget,
    running,      \* the simulation's timer is scheduled
    toggleMap,    \* the App signal
    active,       \* iata -> number of drag gestures in progress on that node
    rendered      \* the circles' cx and cy attributes: iata -> <<cx, cy>> or Null

vars == <<status, airports, flights, node, links, forces, alpha, alphaTarget,
          running, toggleMap, active, rendered>>

\* ------------------------------------------------------------ construction
RECURSIVE flightMapOver(_, _)
flightMapOver(fs, code) ==
    IF fs = <<>> THEN 0
    ELSE LET f == Head(fs)
         IN (IF f.origin = code THEN f.count ELSE 0)
            + (IF f.destination = code THEN f.count ELSE 0)
            + flightMapOver(Tail(fs), code)

\* flightMap[iata] || 0
flightMap(fs, code) == flightMapOver(fs, code)

\* The filter of line 16 returns a function, which is truthy: it keeps every row.
airportsFilter(as, fs) == as

airportsWithTotal(as, fs) ==
    {a \in airportsFilter(as, fs) : flightMap(fs, a) > 0}

rawLinks(fs) ==
    [i \in DOMAIN fs |->
        [source |-> [kind |-> "id", iata |-> fs[i].origin],
         target |-> [kind |-> "id", iata |-> fs[i].destination],
         count |-> fs[i].count]]

Index(code) == CHOOSE i \in DOMAIN AirportRows : AirportRows[i] = code

\* d3 places node i on a spiral around the origin; on the grid, by index.
initializeNodes(simulated) ==
    [n \in simulated |->
        [x |-> (Index(n) - 1) % (MaxX + 1), y |-> 0,
         vx |-> 0, vy |-> 0, fx |-> Null, fy |-> Null]]

\* Variant: a lookup that never throws and leaves a missing id in the link.
\* C6 fails on it.
findNeverThrows(simulated, ref) == FALSE

\* find(nodeById, nodeId) of d3's link force: a missing node throws.
findThrows(simulated, ref) == ref.kind = "id" /\ ref.iata \notin simulated

find(simulated, ref) ==
    IF ref.kind = "id" THEN [kind |-> "node", iata |-> ref.iata] ELSE ref

\* The first link whose source or target is missing, or 0.
firstMissing(simulated, ls) ==
    LET bad == {i \in DOMAIN ls : findThrows(simulated, ls[i].source)
                                  \/ findThrows(simulated, ls[i].target)}
    IN IF bad = {} THEN 0 ELSE CHOOSE i \in bad : \A j \in bad : i <= j

\* forceLink.initialize: resolves the links in order and stops at the throw.
initializeLinks(simulated, ls) ==
    LET stop == firstMissing(simulated, ls)
    IN [i \in DOMAIN ls |->
          IF stop = 0 \/ i < stop
          THEN [ls[i] EXCEPT !.source = find(simulated, ls[i].source),
                             !.target = find(simulated, ls[i].target)]
          ELSE IF i = stop /\ ~findThrows(simulated, ls[i].source)
          THEN [ls[i] EXCEPT !.source = find(simulated, ls[i].source)]
          ELSE ls[i]]

\* simulation.force(name, f): Map.set keeps an existing key in place and appends
\* a new one; force(name, null) deletes the key.
RECURSIVE without(_, _)
without(seq, name) ==
    IF seq = <<>> THEN <<>>
    ELSE IF Head(seq) = name THEN without(Tail(seq), name)
    ELSE <<Head(seq)>> \o without(Tail(seq), name)

has(seq, name) == \E i \in DOMAIN seq : seq[i] = name

force(seq, name, present) ==
    IF present THEN (IF has(seq, name) THEN seq ELSE Append(seq, name))
    ELSE without(seq, name)

\* Variant: the many-body force registered first.  C9 fails on it.
simulationForcesChargeFirst ==
    force(force(force(force(force(<<>>, "charge", TRUE), "link", TRUE),
                      "center", TRUE), "x", FALSE), "y", FALSE)

\* The force map built by lines 161-167.
simulationForces ==
    force(force(force(force(force(<<>>, "link", TRUE), "charge", TRUE),
                      "center", TRUE), "x", FALSE), "y", FALSE)

\* Variant: an effect that never removes the centering force.  C2 fails on it.
effectForcesKeepCenter(seq, map) ==
    force(force(force(force(seq, "link", ~map), "charge", ~map), "x", map), "y", map)

\* The force map after the effect body of lines 174-179.
effectForces(seq, map) ==
    force(force(force(force(force(seq, "link", ~map), "charge", ~map),
                      "center", ~map), "x", map), "y", map)

\* Variants: a drag end that lets the simulation cool to rest, as
\* alphaTarget(0) would (C7 fails on it), and an effect that re-heats to 0.7
\* only (C3 fails on it).
alphaTargetCooled == 0 * AlphaUnit
alphaTargetWarm == (7 * AlphaUnit) \div 10

\* alphaTarget(0.3), alphaTarget(0.7), alphaTarget(1), and d3's defaults.
AlphaOne == AlphaUnit
alphaTargetDragStart == (3 * AlphaUnit) \div 10
alphaTargetDragEnd == (7 * AlphaUnit) \div 10
alphaTargetEffect == AlphaOne
alphaTargetDefault == 0 * AlphaUnit

Init ==
    /\ status = "loading"
    /\ airports = AirportCodes
    /\ flights = <<[origin |-> "JFK", destination |-> "LAX", count |-> 1]>>
    /\ node = <<>>
    /\ links = <<>>
    /\ forces = <<>>
    /\ alpha = 0
    /\ alphaTarget = 0
    /\ running = FALSE
    /\ toggleMap = FALSE
    /\ active = <<>>
    /\ rendered = <<>>

\* Evaluation of the module: lines 9-168.
Load ==
    /\ status = "loading"
    /\ LET simulated == airportsWithTotal(airports, flights)
           ls == rawLinks(flights)
       IN /\ node' = initializeNodes(simulated)
          /\ active' = [n \in simulated |-> 0]
          /\ rendered' = [n \in simulated |-> Null]
          /\ links' = initializeLinks(simulated, ls)
          /\ IF firstMissing(simulated, ls) = 0
             THEN /\ status' = "loaded"
                  /\ forces' = simulationForces
             ELSE /\ status' = "failed"
                  /\ forces' = <<>>
          /\ alpha' = AlphaOne
          /\ alphaTarget' = alphaTargetDefault
          /\ running' = TRUE
    /\ UNCHANGED <<airports, flights, toggleMap>>

\* ------------------------------------------------------------------ mount
\* The body of the effect, lines 174-180: it runs once when App is created and
\* again after every change of toggleMap.
createEffect(map) ==
    /\ forces' = effectForces(forces, map)
    /\ alphaTarget' = alphaTargetEffect
    /\ running' = TRUE

\* render() creates the App component synchronously after the module body,
\* before any timer callback: no tick comes between Load and Mount.
Mount ==
    /\ status = "loaded"
    /\ status' = "mounted"
    /\ createEffect(toggleMap)
    /\ UNCHANGED <<airports, flights, node, links, alpha, toggleMap, active, rendered>>

\* Variant: a mode switch that also releases every pin.  C10 fails on it.
ToggleUnpins ==
    /\ status = "mounted"
    /\ toggleMap' = ~toggleMap
    /\ createEffect(~toggleMap)
    /\ node' = [n \in DOMAIN node |-> [node[n] EXCEPT !.fx = Null, !.fy = Null]]
    /\ UNCHANGED <<status, airports, flights, links, alpha, active, rendered>>

\* The button's onClick, line 191: setToggleMap((t) => !t), then the effect.
Toggle ==
    /\ status = "mounted"
    /\ toggleMap' = ~toggleMap
    /\ createEffect(~toggleMap)
    /\ UNCHANGED <<status, airports, flights, node, links, alpha, active, rendered>>

\* ------------------------------------------------------------------- drag
\* event.active: the gestures in progress, the one starting or ending excluded.
gestures(act) ==
    LET RECURSIVE sum(_)
        sum(S) == IF S = {} THEN 0
                  ELSE LET n == CHOOSE m \in S : TRUE IN act[n] + sum(S \ {n})
    IN sum(DOMAIN act)

dragstartedNode(p) == [p EXCEPT !.fx = Some(p.x), !.fy = Some(p.y)]

dragstarted(n) ==
    /\ status = "mounted"
    /\ n \in DOMAIN node
    /\ gestures(active) < MaxGestures
    /\ IF gestures(active) = 0
       THEN alphaTarget' = alphaTargetDragStart /\ running' = TRUE
       ELSE UNCHANGED <<alphaTarget, running>>
    /\ node' = [node EXCEPT ![n] = dragstartedNode(node[n])]
    /\ active' = [active EXCEPT ![n] = @ + 1]
    /\ UNCHANGED <<status, airports, flights, links, forces, alpha, toggleMap, rendered>>

draggedNode(p, ex, ey) == [p EXCEPT !.fx = Some(ex), !.fy = Some(ey)]

dragged(n, ex, ey) ==
    /\ status = "mounted"
    /\ n \in DOMAIN node
    /\ active[n] > 0
    /\ node' = [node EXCEPT ![n] = draggedNode(node[n], ex, ey)]
    /\ UNCHANGED <<status, airports, flights, links, forces, alpha, alphaTarget,
                   running, toggleMap, active, rendered>>

dragendedNode(p) == [p EXCEPT !.fx = Null, !.fy = Null]

dragended(n) ==
    /\ status = "mounted"
    /\ n \in DOMAIN node
    /\ active[n] > 0
    /\ IF gestures(active) - 1 = 0
       THEN alphaTarget' = alphaTargetDragEnd
       ELSE UNCHANGED alphaTarget
    /\ node' = [node EXCEPT ![n] = dragendedNode(node[n])]
    /\ active' = [active EXCEPT ![n] = @ - 1]
    /\ UNCHANGED <<status, airports, flights, links, forces, alpha, running,
                   toggleMap, rendered>>

DragStart == \E n \in AirportCodes : dragstarted(n)
DragMove == \E n \in AirportCodes, ex \in Xs, ey \in Ys : dragged(n, ex, ey)
DragEnd == \E n \in AirportCodes : dragended(n)

\* ------------------------------------------------------------------- tick
\* d3's defaults: alphaMin = 0.001, alphaDecay = 1 - alphaMin^(1/300) = 0.0228,
\* velocityDecay = 1 - 0.4 = 0.6.
alphaMinPerMille == 1
alphaDecayPer10000 == 228
velocityDecayPer10 == 6

\* The quotient n / d rounded to an integer toward zero, and away from zero.
Trunc(n, d) == IF n >= 0 THEN n \div d ELSE 0 - ((0 - n) \div d)
RoundAway(n, d) ==
    IF n >= 0 THEN (n + d - 1) \div d ELSE 0 - ((0 - n + d - 1) \div d)

\* Variant: a decay toward 0 whatever the target.  C5 fails on it.
alphaStepToZero(a, target) == a + RoundAway((0 - a) * alphaDecayPer10000, 10000)

\* alpha += (alphaTarget - alpha) * alphaDecay.  A double resolves an increment
\* 2^-53 times smaller than alpha; at the grid's resolution the increment is
\* rounded away from zero, so that it vanishes only when alpha is at the target.
alphaStep(a, target) == a + RoundAway((target - a) * alphaDecayPer10000, 10000)

belowAlphaMin(a) == a * 1000 < alphaMinPerMille * AlphaUnit

\* Whether force `name` changes the velocity of node n on the axis: the many-body
\* force when there is another node, the link force on a link's two ends, the
\* positional forces on their own axis.
linked(ls, n) ==
    \E i \in DOMAIN ls : /\ ls[i].source.iata # ls[i].target.iata
                         /\ n \in {ls[i].source.iata, ls[i].target.iata}

pushesX(name, nd, ls, n) ==
    \/ name = "charge" /\ DOMAIN nd # {n}
    \/ name = "link" /\ linked(ls, n)
    \/ name = "x"

pushesY(name, nd, ls, n) ==
    \/ name = "charge" /\ DOMAIN nd # {n}
    \/ name = "link" /\ linked(ls, n)
    \/ name = "y"

RECURSIVE total(_, _, _)
total(nd, S, axis) ==
    IF S = {} THEN 0
    ELSE LET n == CHOOSE m \in S : TRUE
         IN (IF axis = "x" THEN nd[n].x ELSE nd[n].y) + total(nd, S \ {n}, axis)

\* forceCenter(width / 2, height / 2): the translation that moves the centroid
\* of the nodes to the center of the canvas.
forceCenter(nd) ==
    LET k == Cardinality(DOMAIN nd)
    IN <<Trunc(total(nd, DOMAIN nd, "x"), k) - (MaxX \div 2),
         Trunc(total(nd, DOMAIN nd, "y"), k)>>

\* Force `name` of the map, on one node.  The centering force translates the
\* position by sh, pinned or not; the others add d to the velocity.
applyForce(name, p, d, sh) ==
    IF name = "center"
    THEN [p EXCEPT !.x = @ - sh[1], !.y = @ - sh[2]]
    ELSE [p EXCEPT !.vx = @ + d[1], !.vy = @ + d[2]]

\* forces.forEach(force => force(alpha)), in the map's order, from force i on:
\* ds[i] is the velocity force i adds to the node.
RECURSIVE applyForces(_, _, _, _, _)
applyForces(seq, i, p, ds, sh) ==
    IF i > Len(seq) THEN p
    ELSE applyForces(seq, i + 1, applyForce(seq[i], p, ds[i], sh), ds, sh)

\* node.vx *= velocityDecay
friction(v) == Trunc(v * velocityDecayPer10, 10)

\* Variant: an integration that ignores the pin of x.  C1 fails on it.
integrateXFree(p) == [p EXCEPT !.vx = friction(p.vx), !.x = @ + friction(p.vx)]

\* The integration loop of simulation.tick, one node:
\*   if (node.fx == null) node.x += node.vx *= velocityDecay;
\*   else node.x = node.fx, node.vx = 0;          and the same for y.
integrateX(p) ==
    IF p.fx = Null
    THEN [p EXCEPT !.vx = friction(p.vx), !.x = @ + friction(p.vx)]
    ELSE [p EXCEPT !.x = p.fx[1], !.vx = 0]

integrateY(p) ==
    IF p.fy = Null
    THEN [p EXCEPT !.vy = friction(p.vy), !.y = @ + friction(p.vy)]
    ELSE [p EXCEPT !.y = p.fy[1], !.vy = 0]

integrate(p) == integrateY(integrateX(p))

\* simulation.tick(): the forces, then the integration (the alpha step is in
\* Tick).  dv[n][i] is the velocity force i adds to node n.
tick(seq, nd, dv) ==
    CHOOSE moved \in
        {[n \in DOMAIN nd |-> integrate(applyForces(seq, 1, nd[n], dv[n], sh))] :
            sh \in {forceCenter(nd)}} : TRUE

\* ticked(), lines 151-158: the circles take the nodes' positions.
ticked(nd) == [n \in DOMAIN nd |-> Some(<<nd[n].x, nd[n].y>>)]

onGrid(nd) == \A n \in DOMAIN nd : nd[n].x \in Xs /\ nd[n].y \in Ys

\* The velocity changes drawn for one coordinate with velocity v: one for each
\* velocity the friction can leave.  A velocity that keeps a node on the grid
\* is at most MaxX.
drawsOf ==
    [v \in (0 - MaxX)..MaxX |->
        {d \in ForceDeltas :
            \A e \in ForceDeltas : e < d => friction(v + e) # friction(v + d)}]

draws(v) == drawsOf[v]

\* The place in the map of the first force that acts on node n's velocity on
\* the axis, or 0.
firstPush(seq, nd, ls, n, axis) ==
    LET acting == {i \in DOMAIN seq :
                     IF axis = "x" THEN pushesX(seq[i], nd, ls, n)
                     ELSE pushesY(seq[i], nd, ls, n)}
    IN IF acting = {} THEN 0 ELSE CHOOSE i \in acting : \A k \in acting : i <= k

\* What the forces of one tick can add to node n's velocity, force by force,
\* given the translation sh of the centering force.  The sum over the forces
\* that act on a coordinate is drawn as a whole and put on the first of them:
\* nothing is drawn for a coordinate no force acts on, nor for a pinned one,
\* where the integration discards it.  Only what leaves the node on the grid
\* is drawn.
pushOn(seq, nd, ls, n, sh) ==
    {d \in {[i \in DOMAIN seq |->
                <<IF i = c[1] THEN c[3] ELSE 0, IF i = c[2] THEN c[4] ELSE 0>>] :
            c \in {firstPush(seq, nd, ls, n, "x")} \X {firstPush(seq, nd, ls, n, "y")}
                  \X (IF nd[n].fx = Null /\ firstPush(seq, nd, ls, n, "x") # 0
                      THEN draws(nd[n].vx) ELSE {0})
                  \X (IF nd[n].fy = Null /\ firstPush(seq, nd, ls, n, "y") # 0
                      THEN draws(nd[n].vy) ELSE {0})} :
        onGrid([m \in {n} |-> integrate(applyForces(seq, 1, nd[n], d, sh))])}

RECURSIVE pushes(_, _, _, _, _)
pushes(seq, nd, ls, S, sh) ==
    IF S = {} THEN {[m \in {} |-> <<>>]}
    ELSE LET n == CHOOSE m \in S : TRUE
         IN {[m \in S |-> IF m = n THEN d ELSE f[m]] :
                f \in pushes(seq, nd, ls, S \ {n}, sh), d \in pushOn(seq, nd, ls, n, sh)}

\* step(): tick(), the "tick" listener, and the stop below alphaMin.
Tick ==
    /\ status = "mounted"
    /\ running
    /\ alpha' = alphaStep(alpha, alphaTarget)
    /\ \E dv \in pushes(forces, node, links, DOMAIN node, forceCenter(node)) :
         node' = tick(forces, node, dv)
    /\ rendered' = ticked(node')
    /\ running' = ~belowAlphaMin(alpha')
    /\ UNCHANGED <<status, airports, flights, links, forces, alphaTarget,
                   toggleMap, active>>

Next == Load \/ Mount \/ Toggle \/ DragStart \/ DragMove \/ DragEnd \/ Tick

Spec == Init /\ [][Next]_vars

\* Construction alone, over every airports file and every flights file of at
\* most MaxFlights rows.
RECURSIVE flightFiles(_)
flightFiles(k) ==
    IF k = 0 THEN {<<>>}
    ELSE flightFiles(k - 1)
         \cup {Append(fs, r) : fs \in {f \in flightFiles(k - 1) : Len(f) = k - 1},
                               r \in FlightRows}

InitConstruct ==
    /\ status = "loading"
    /\ airports \in SUBSET AirportCodes
    /\ flights \in flightFiles(MaxFlights)
    /\ node = <<>>
    /\ links = <<>>
    /\ forces = <<>>
    /\ alpha = 0
    /\ alphaTarget = 0
    /\ running = FALSE
    /\ toggleMap = FALSE
    /\ active = <<>>
    /\ rendered = <<>>

SpecConstruct == InitConstruct /\ [][Load]_vars

\* ============================================================ properties
pinned(p) == p.fx # Null /\ p.fy # Null
unpinned(p) == p.fx = Null /\ p.fy = Null
started == status \in {"loaded", "mounted"}
names(seq) == {seq[i] : i \in DOMAIN seq}

\* A step of Tick that changes the state: of the steps of Next from a mounted
\* state, the one that is no mode switch (the mode is unchanged) and no drag
\* handler's (the gestures and the pins are unchanged).
ticking ==
    /\ status = "mounted" /\ running
    /\ toggleMap' = toggleMap /\ active' = active
    /\ \A n \in DOMAIN node : node'[n].fx = node[n].fx /\ node'[n].fy = node[n].fy
    /\ <<alpha, node, rendered, running>>' # <<alpha, node, rendered, running>>

tickingIsTick == [][ticking <=> (Tick /\ vars' # vars)]_vars

\* C1: a tick leaves every pinned particle exactly at its pin, the last value
\* dragstarted or dragged wrote, and that is the position the tick callback
\* shows, whatever the forces of the tick added and wherever the centering
\* force moved the particle.
C1_PinnedStaysAtPin ==
    [][ticking =>
         \A n \in DOMAIN node :
            /\ node[n].fx # Null =>
                  node'[n].x = node[n].fx[1] /\ rendered'[n][1][1] = node[n].fx[1]
            /\ node[n].fy # Null =>
                  node'[n].y = node[n].fy[1] /\ rendered'[n][1][2] = node[n].fy[1]
            /\ node'[n].fx = node[n].fx /\ node'[n].fy = node[n].fy]_vars

\* JFK, placed at x = 0, has been dragged to x = 1 and a tick has shown it
\* there, while LAX, placed at x = 1, has moved.
C1_Witness ==
    /\ status = "mounted"
    /\ active["JFK"] = 1
    /\ node["JFK"].fx = Some(1) /\ node["JFK"].x = 1
    /\ rendered["JFK"] = Some(<<1, 0>>)
    /\ node["LAX"].x = 0

\* C2: once the simulation is constructed the force map holds exactly link,
\* many-body and centering in network mode and exactly the two positional
\* forces in map mode.
C2_ForceSetByMode ==
    started =>
        /\ Cardinality(names(forces)) = Len(forces)
        /\ names(forces) = IF toggleMap THEN {"x", "y"}
                           ELSE {"link", "charge", "center"}

\* Map mode, reached while a drag is in progress and after a tick.
C2_Witness ==
    /\ status = "mounted" /\ toggleMap
    /\ names(forces) = {"x", "y"}
    /\ \E n \in DOMAIN node : active[n] > 0 /\ rendered[n] # Null

\* C3: every run of the effect for a mode switch sets alphaTarget to 1, never
\* lowering it, and leaves the timer running; a tick taken while alphaTarget
\* is 1 moves alpha up toward 1 and not past it.
C3_SwitchReheats ==
    [][/\ toggleMap' # toggleMap =>
             alphaTarget' = AlphaOne /\ alphaTarget' >= alphaTarget /\ running'
       /\ (ticking /\ alphaTarget = AlphaOne) =>
             /\ alpha <= alpha' /\ alpha' <= AlphaOne
             /\ alpha < AlphaOne => alpha < alpha']_vars

\* A switch to map mode made during a drag, with alpha below 1: the target is
\* 1 although a gesture is in progress.
C3_Witness ==
    /\ status = "mounted" /\ toggleMap /\ running
    /\ alphaTarget = AlphaOne /\ alpha < AlphaOne
    /\ \E n \in DOMAIN node : active[n] > 0

\* C4: a drag that starts with no other gesture in progress raises alphaTarget,
\* and the end of the last gesture lowers it.
C4_DragStartRaisesDragEndLowers ==
    [][/\ (DragStart /\ gestures(active) = 0) => alphaTarget' > alphaTarget
       /\ (DragEnd /\ gestures(active') = 0) => alphaTarget' < alphaTarget]_vars

\* C5 as stated: every tick strictly lowers alpha and leaves it at or above
\* alphaTarget.
C5_StrictDecay ==
    [][ticking => alpha' < alpha /\ alpha' >= alphaTarget]_vars

\* C5 as amended: a tick moves alpha toward alphaTarget and never across it:
\* from above it does not rise and stays at or above the target, from below it
\* does not fall and stays at or below the target, and at the target it stays.
C5_MovesTowardTarget ==
    [][ticking =>
         IF alpha >= alphaTarget
         THEN alphaTarget <= alpha' /\ alpha' <= alpha
         ELSE alpha <= alpha' /\ alpha' <= alphaTarget]_vars

\* Ticks have shown the nodes and alpha is below the target that the end of a
\* drag set.
C5_Witness ==
    /\ status = "mounted"
    /\ alphaTarget = alphaTargetDragEnd /\ alpha < alphaTarget
    /\ \A n \in DOMAIN node : rendered[n] # Null

\* C6: a construction that succeeds leaves one link per flights row, in order,
\* with both ends resolved to simulated nodes; a flights row that names a code
\* outside the simulated set (unknown, or an airport whose flights sum to zero)
\* makes the construction fail.
C6_EdgeIntegrity ==
    /\ started =>
          /\ Len(links) = Len(flights)
          /\ \A i \in DOMAIN links :
                /\ links[i].source = [kind |-> "node", iata |-> flights[i].origin]
                /\ links[i].target = [kind |-> "node", iata |-> flights[i].destination]
                /\ {flights[i].origin, flights[i].destination} \subseteq DOMAIN node
          /\ \A n \in DOMAIN node : n \in airports /\ flightMap(flights, n) > 0
    /\ status # "loading" =>
          ((\E i \in DOMAIN flights :
               \E c \in {flights[i].origin, flights[i].destination} :
                  c \notin airports \/ flightMap(flights, c) = 0)
           => status = "failed")

\* A construction that succeeded with two links and left out LAX, which is in
\* the airports file and in no flight.
C6_Witness ==
    /\ status = "loaded"
    /\ Len(links) = 2
    /\ airports = {"JFK", "LAX"}
    /\ DOMAIN node = {"JFK"}

\* C7: once the App is mounted the timer is never stopped: alpha never falls
\* below alphaMin, and a further tick is possible in every state.
canTick ==
    \E dv \in pushes(forces, node, links, DOMAIN node, forceCenter(node)) :
        onGrid(tick(forces, node, dv))

C7_NeverStops ==
    status = "mounted" => running /\ ~belowAlphaMin(alpha) /\ canTick

\* Resting: alpha has settled at the lowest target, that of a drag start, and
\* the timer still runs.
C7_Witness ==
    /\ status = "mounted" /\ running
    /\ alphaTarget = alphaTargetDragStart /\ alpha = alphaTarget
    /\ \A n \in DOMAIN node : rendered[n] # Null

\* C8: a particle is pinned exactly while a gesture on it is in progress.
C8_PinnedExactlyWhileDragged ==
    \A n \in DOMAIN node :
        /\ active[n] > 0 <=> pinned(node[n])
        /\ active[n] = 0 <=> unpinned(node[n])

\* C9 as stated: the forces are invoked many-body first, then link, then
\* centering or positional.
rankAsStated(name) ==
    CASE name = "charge" -> 1 [] name = "link" -> 2 [] name = "center" -> 3
      [] name = "x" -> 3 [] name = "y" -> 4

C9_ManyBodyFirst ==
    status = "mounted" =>
        \A i, j \in DOMAIN forces :
            i < j => rankAsStated(forces[i]) < rankAsStated(forces[j])

\* C9 as amended: the forces are invoked in the order the code registered
\* them, link, many-body, centering in network mode and x, y in map mode, after
\* any number of switches; and what the tick callback shows is every node's
\* position after the integration.
C9_RegistrationOrder ==
    /\ started => forces = IF toggleMap THEN <<"x", "y">>
                           ELSE <<"link", "charge", "center">>
    /\ \A n \in DOMAIN node :
          rendered[n] # Null => rendered[n] = Some(<<node[n].x, node[n].y>>)

\* Network mode again after a switch to map mode and back, with ticks: alpha
\* below a target of 1 and no gesture in progress takes a switch, and network
\* mode takes a second one.
C9_Witness ==
    /\ status = "mounted" /\ ~toggleMap
    /\ alphaTarget = AlphaOne /\ alpha < AlphaOne
    /\ \A n \in DOMAIN node : active[n] = 0 /\ rendered[n] # Null
    /\ node["JFK"].x # 0

\* A step of a drag handler with subject n that changes the state: it changes
\* the gestures or the pin of n.
dragging(n) ==
    /\ status = "mounted" /\ n \in DOMAIN node
    /\ active' # active \/ node'[n].fx # node[n].fx \/ node'[n].fy # node[n].fy
    /\ dragstarted(n) \/ dragended(n) \/ \E ex \in Xs, ey \in Ys : dragged(n, ex, ey)

\* C10: a mode switch changes neither a particle (pin, position, velocity) nor
\* the gestures nor alpha; a drag handler changes neither the force map nor the
\* mode nor any particle but its subject, and of its subject only the pin.
C10_DisjointWriters ==
    [][/\ toggleMap' # toggleMap =>
             /\ node' = node /\ active' = active /\ alpha' = alpha /\ rendered' = rendered
             /\ links' = links /\ status' = status /\ running' = running
       /\ \A n \in AirportCodes :
             dragging(n) =>
                /\ forces' = forces /\ toggleMap' = toggleMap /\ alpha' = alpha
                /\ \A m \in DOMAIN node :
                      /\ node'[m].x = node[m].x /\ node'[m].y = node[m].y
                      /\ node'[m].vx = node[m].vx /\ node'[m].vy = node[m].vy
                      /\ m # n => node'[m] = node[m]]_vars

\* Both modes seen by a particle that is still pinned away from its position:
\* back in network mode, with a gesture on JFK and a pin the drag moved.
C10_Witness ==
    /\ status = "mounted" /\ ~toggleMap
    /\ alphaTarget = AlphaOne
    /\ active["JFK"] > 0 /\ pinned(node["JFK"])
    /\ node["JFK"].fx # Some(node["JFK"].x)
    /\ unpinned(node["LAX"])
====
